---- MODULE Spec2Model ----
(***************************************************************************)
(* The chat widget of client/src/components/chat/Chat.tsx as a state       *)
(* machine: the React state of the Chat component, its three handlers      *)
(* (handleSendMessage, handleConfirmationResponse,                         *)
(* handleStartNewConversation), and the continuations of the two awaits    *)
(* (fetch, response.json) of every gateway call that is outstanding.       *)
(*                                                                         *)
(* Texts are sequences of tokens.  The draft the user types is a sequence  *)
(* over Chars; the fixed texts of the program are one-token sequences.     *)
(*                                                                         *)
(* Message.id (Math.random) and Message.timestamp (new Date) are values    *)
(* the environment supplies and nothing in the component reads; messages   *)
(* carry role and content, plus the ghost field stale (see requests).      *)
(*                                                                         *)
(* Delivery of events.  The footer renders exactly one group of controls   *)
(* (Chat.tsx 232-308).  The `disabled` attributes of the text field, Send, *)
(* Yes and Change repeat tests their handlers make themselves (65, 146) or *)
(* guard an edit of the draft only; the model delivers those events        *)
(* whenever the control is rendered, so that the handlers' own tests       *)
(* decide.  handleStartNewConversation tests nothing: the `disabled` of    *)
(* Start Over (273) is its only gate and is part of its enabling           *)
(* condition.                                                              *)
(***************************************************************************)
EXTENDS Integers, Sequences, FiniteSets, TLC

\* ---------------------------------------------------------------- bounds
MaxInputLen == 3
MaxMessages == 5

\* ------------------------------------------------------------- constants
Null == "NULL"
Absent == "UNDEFINED"
EmptyString == ""

Chars == {"a", " "}
WhiteSpace == {" "}

GreetingText == <<"Hello! I'm your ASU enrollment data assistant. ...">>
ErrorText == <<"Sorry, I encountered an error connecting to the server. Please make sure the backend is running on http://localhost:8000">>
YesContent == <<"Yes">>
NoContent == <<"No, let me change something">>
YesMessage == <<"yes">>
ChangeMessage == <<"I want to change something">>

INITIAL_MESSAGE == [role |-> "assistant", content |-> GreetingText, stale |-> FALSE]

\* ------------------------------------------------------ the environment
InputTexts == UNION {[1..n -> Chars] : n \in 0..MaxInputLen}
ReplyTexts == {<<"reply one">>, <<"reply two">>}
ReplyConvIds == {Absent, EmptyString, "abc", "xyz"}
Replies == [response : ReplyTexts, conversation_id : ReplyConvIds,
            confirmed : BOOLEAN, awaiting_confirmation : BOOLEAN]
NoData == [response |-> <<>>, conversation_id |-> Absent,
           confirmed |-> FALSE, awaiting_confirmation |-> FALSE]

\* messages .. isAwaitingConfirmation: the useState cells of lines 24-29.
\* requests: the gateway calls that have been sent and whose handler is still
\*   suspended at an await, oldest first; phase is the await it is suspended
\*   at, stale is set when the conversation was reset after the call was sent.
\* lastOp: the handler step taken last (history variable): step is "return"
\*   (handler ran to its end without a call), "fetch" / "json" (suspended at
\*   that await), "then" (try-block completed) or "catch"; data is the reply
\*   handled by a "then" step; error is what a "catch" step caught.
VARIABLES messages, input, isLoading, conversationId, isConfirmed,
          isAwaitingConfirmation, requests, lastOp

vars == <<messages, input, isLoading, conversationId, isConfirmed,
          isAwaitingConfirmation, requests, lastOp>>

\* ------------------------------------------------------ pure functions
RECURSIVE TrimStart(_)
TrimStart(s) ==
    IF s = <<>> THEN <<>>
    ELSE IF Head(s) \in WhiteSpace THEN TrimStart(Tail(s)) ELSE s

RECURSIVE TrimEnd(_)
TrimEnd(s) ==
    IF s = <<>> THEN <<>>
    ELSE IF s[Len(s)] \in WhiteSpace THEN TrimEnd(SubSeq(s, 1, Len(s) - 1)) ELSE s

\* the draft is used as typed
TrimNothing(s) == s

Trim(s) == TrimEnd(TrimStart(s))

\* JavaScript truthiness of a conversation_id: undefined, null and "" are falsy
Truthy(v) == v \notin {Absent, Null, EmptyString}

\* the new message is put in front of the list
PrependMessage(prev, m) == <<m>> \o prev

\* setMessages((prev) => [...prev, m]): lines 74, 120, 132, 155, 189
AppendMessage(prev, m) == Append(prev, m)

RemoveAt(s, i) == SubSeq(s, 1, i - 1) \o SubSeq(s, i + 1, Len(s))

\* ------------------------------------------------------------ rendering
Mode ==
    IF isConfirmed THEN "confirmed"
    ELSE IF isAwaitingConfirmation THEN "awaiting_confirmation"
    ELSE "composing"

NewConversationRendered == isConfirmed
ConfirmationRendered == ~isConfirmed /\ isAwaitingConfirmation
\* the text field is rendered in confirmed mode as well
InputRenderedWhenConfirmed == ~isAwaitingConfirmation

InputRendered == ~isConfirmed /\ ~isAwaitingConfirmation
\* Start Over without its disabled attribute
StartOverAlwaysEnabled == ConfirmationRendered

StartOverEnabled == ConfirmationRendered /\ ~isLoading

Init ==
    /\ messages = <<INITIAL_MESSAGE>>
    /\ input = <<>>
    /\ isLoading = FALSE
    /\ conversationId = Null
    /\ isConfirmed = FALSE
    /\ isAwaitingConfirmation = FALSE
    /\ requests = <<>>
    /\ lastOp = [handler |-> "Chat", step |-> "mount", data |-> NoData, error |-> "none"]

\* onChange of the text field: setInput(e.target.value)
OnChange(v) ==
    /\ InputRendered
    /\ input' = v
    /\ lastOp' = [handler |-> "onChange", step |-> "return", data |-> NoData, error |-> "none"]
    /\ UNCHANGED <<messages, isLoading, conversationId, isConfirmed,
                   isAwaitingConfirmation, requests>>

\* ---------------------------------------------------- handleSendMessage
\* the test of isLoading is left out
SendIgnoresLoading(trimmedInput, loading) == trimmedInput = <<>>

\* line 65: if (!trimmedInput || isLoading) return;
SendReturnsEarly(trimmedInput, loading) == trimmedInput = <<>> \/ loading

\* lines 98-100: if (data.conversation_id) setConversationId(data.conversation_id)
SendConversationId(current, data) ==
    IF Truthy(data.conversation_id) THEN data.conversation_id ELSE current

\* awaiting_confirmation is tested before confirmed
SendModeFlagsAwaitingFirst(data, confirmed, awaiting) ==
    IF data.awaiting_confirmation THEN <<confirmed, TRUE>>
    ELSE IF data.confirmed THEN <<TRUE, FALSE>>
    ELSE <<confirmed, FALSE>>

\* lines 102-111: the pair <<isConfirmed, isAwaitingConfirmation>> after the reply
SendModeFlags(data, confirmed, awaiting) ==
    IF data.confirmed THEN <<TRUE, FALSE>>
    ELSE IF data.awaiting_confirmation THEN <<confirmed, TRUE>>
    ELSE <<confirmed, FALSE>>

\* the catch block only logs
SendCatchSilent(msgs, stale) == msgs

\* lines 121-132: the catch block appends the fixed error message
SendCatch(msgs, stale) ==
    AppendMessage(msgs, [role |-> "assistant", content |-> ErrorText, stale |-> stale])

\* lines 63-88: the synchronous part of the handler, up to the await of fetch
HandleSendMessageCall ==
    LET trimmedInput == Trim(input) IN
    IF SendReturnsEarly(trimmedInput, isLoading)
    THEN /\ lastOp' = [handler |-> "handleSendMessage", step |-> "return", data |-> NoData, error |-> "none"]
         /\ UNCHANGED <<messages, input, isLoading, conversationId, isConfirmed,
                        isAwaitingConfirmation, requests>>
    ELSE /\ Len(messages) + 2 <= MaxMessages
         /\ messages' = AppendMessage(messages,
                [role |-> "user", content |-> trimmedInput, stale |-> FALSE])
         /\ input' = <<>>
         /\ isLoading' = TRUE
         /\ requests' = Append(requests,
                [handler |-> "handleSendMessage", message |-> trimmedInput,
                 conversation_id |-> conversationId, phase |-> "fetch",
                 stale |-> FALSE])
         /\ lastOp' = [handler |-> "handleSendMessage", step |-> "fetch", data |-> NoData, error |-> "none"]
         /\ UNCHANGED <<conversationId, isConfirmed, isAwaitingConfirmation>>

\* Enter in the text field (handleKeyDown, 138-143) or a click on Send (295)
HandleSendMessage ==
    /\ InputRendered
    /\ HandleSendMessageCall

\* ------------------------------------------- handleConfirmationResponse
\* line 146: if (isLoading) return;
ConfirmReturnsEarly(loading) == loading

\* lines 159-180 never call setConversationId
ConfirmConversationId(current, data) == current

\* lines 175-180
ConfirmModeFlags(data, confirmed, awaiting) ==
    IF data.confirmed THEN <<TRUE, FALSE>>
    ELSE <<confirmed, data.awaiting_confirmation>>

\* lines 190-191: the catch block logs and appends nothing
ConfirmCatch(msgs, stale) == msgs

\* lines 145-166: the synchronous part of the handler, up to the await of fetch
HandleConfirmationResponse(response) ==
    /\ ConfirmationRendered
    /\ IF ConfirmReturnsEarly(isLoading)
       THEN /\ lastOp' = [handler |-> "handleConfirmationResponse", step |-> "return",
                          data |-> NoData, error |-> "none"]
            /\ UNCHANGED <<messages, input, isLoading, conversationId, isConfirmed,
                           isAwaitingConfirmation, requests>>
       ELSE /\ Len(messages) + 2 <= MaxMessages
            /\ messages' = AppendMessage(messages,
                   [role |-> "user",
                    content |-> IF response = "yes" THEN YesContent ELSE NoContent,
                    stale |-> FALSE])
            /\ isLoading' = TRUE
            /\ requests' = Append(requests,
                   [handler |-> "handleConfirmationResponse",
                    message |-> IF response = "yes" THEN YesMessage ELSE ChangeMessage,
                    conversation_id |-> conversationId, phase |-> "fetch",
                    stale |-> FALSE])
            /\ lastOp' = [handler |-> "handleConfirmationResponse", step |-> "fetch",
                          data |-> NoData, error |-> "none"]
            /\ UNCHANGED <<input, conversationId, isConfirmed, isAwaitingConfirmation>>

\* ------------------------------------------- handleStartNewConversation
\* lines 48-61; a call that is still outstanding now belongs to the previous
\* conversation, which the ghost field stale records
MarkStale(reqs) == [i \in 1..Len(reqs) |-> [reqs[i] EXCEPT !.stale = TRUE]]

HandleStartNewConversation ==
    /\ NewConversationRendered \/ StartOverEnabled
    /\ messages' = <<INITIAL_MESSAGE>>
    /\ conversationId' = Null
    /\ isConfirmed' = FALSE
    /\ isAwaitingConfirmation' = FALSE
    /\ input' = <<>>
    /\ requests' = MarkStale(requests)
    /\ lastOp' = [handler |-> "handleStartNewConversation", step |-> "return",
                  data |-> NoData, error |-> "none"]
    /\ UNCHANGED isLoading

\* ------------------------------------------- continuations of the awaits
\* try-block after `await response.json()`: 94-120 and 172-189
Then(i, data) ==
    LET r == requests[i]
        flags == IF r.handler = "handleSendMessage"
                 THEN SendModeFlags(data, isConfirmed, isAwaitingConfirmation)
                 ELSE ConfirmModeFlags(data, isConfirmed, isAwaitingConfirmation)
    IN /\ conversationId' = IF r.handler = "handleSendMessage"
                            THEN SendConversationId(conversationId, data)
                            ELSE ConfirmConversationId(conversationId, data)
       /\ isConfirmed' = flags[1]
       /\ isAwaitingConfirmation' = flags[2]
       /\ messages' = AppendMessage(messages,
              [role |-> "assistant", content |-> data.response, stale |-> r.stale])
       /\ lastOp' = [handler |-> r.handler, step |-> "then", data |-> data, error |-> "none"]

\* catch-block: 121-132 and 190-191
Catch(i, error) ==
    LET r == requests[i]
    IN /\ messages' = IF r.handler = "handleSendMessage"
                      THEN SendCatch(messages, r.stale)
                      ELSE ConfirmCatch(messages, r.stale)
       /\ lastOp' = [handler |-> r.handler, step |-> "catch", data |-> NoData, error |-> error]
       /\ UNCHANGED <<conversationId, isConfirmed, isAwaitingConfirmation>>

\* the flag is not cleared when the call ends
FinallyKeepsLoading(i) ==
    /\ UNCHANGED isLoading
    /\ requests' = RemoveAt(requests, i)
    /\ UNCHANGED input

\* finally-block: 133-135 and 192-194
Finally(i) ==
    /\ isLoading' = FALSE
    /\ requests' = RemoveAt(requests, i)
    /\ UNCHANGED input

\* fetch resolves with a 2xx status: the handler goes on to await response.json()
FetchResolvesOk(i) ==
    /\ i \in 1..Len(requests)
    /\ requests[i].phase = "fetch"
    /\ requests' = [requests EXCEPT ![i].phase = "json"]
    /\ lastOp' = [handler |-> requests[i].handler, step |-> "json", data |-> NoData, error |-> "none"]
    /\ UNCHANGED <<messages, input, isLoading, conversationId, isConfirmed,
                   isAwaitingConfirmation>>

\* fetch resolves with a non-2xx status: lines 90-92 and 168-170 throw
FetchResolvesNotOk(i) ==
    /\ i \in 1..Len(requests)
    /\ requests[i].phase = "fetch"
    /\ Catch(i, "HTTP error")
    /\ Finally(i)

\* fetch rejects (network error)
FetchRejects(i) ==
    /\ i \in 1..Len(requests)
    /\ requests[i].phase = "fetch"
    /\ Catch(i, "fetch rejected")
    /\ Finally(i)

\* response.json() resolves with a reply object
JsonResolves(i, data) ==
    /\ i \in 1..Len(requests)
    /\ requests[i].phase = "json"
    /\ Then(i, data)
    /\ Finally(i)

\* response.json() rejects, or yields null so that reading data.conversation_id
\* (98) or data.confirmed (175) throws before any setter has run
JsonRejects(i) ==
    /\ i \in 1..Len(requests)
    /\ requests[i].phase = "json"
    /\ Catch(i, "json rejected")
    /\ Finally(i)

Next ==
    \/ \E v \in InputTexts : OnChange(v)
    \/ HandleSendMessage
    \/ \E response \in {"yes", "no"} : HandleConfirmationResponse(response)
    \/ HandleStartNewConversation
    \/ \E i \in 1..Len(requests) : FetchResolvesOk(i)
    \/ \E i \in 1..Len(requests) : FetchResolvesNotOk(i)
    \/ \E i \in 1..Len(requests) : FetchRejects(i)
    \/ \E i \in 1..Len(requests), data \in Replies : JsonResolves(i, data)
    \/ \E i \in 1..Len(requests) : JsonRejects(i)

Spec == Init /\ [][Next]_vars

\* ================================================================ claims
SendHandler == "handleSendMessage"
ConfirmHandler == "handleConfirmationResponse"
ResetHandler == "handleStartNewConversation"

\* the step being taken is a call of h (lastOp' describes the step)
IsCall(h) == lastOp'.handler = h /\ lastOp'.step \in {"return", "fetch"}
\* the step being taken ends a gateway call of h in its try-block / catch-block
IsThen(h) == lastOp'.handler = h /\ lastOp'.step = "then"
IsCatch(h) == lastOp'.handler = h /\ lastOp'.step = "catch"

IsBlank(s) == \A k \in 1..Len(s) : s[k] \in WhiteSpace
\* t is s without its leading and trailing whitespace
IsTrimOf(t, s) ==
    /\ t = <<>> \/ (t[1] \notin WhiteSpace /\ t[Len(t)] \notin WhiteSpace)
    /\ \E i, j \in 0..Len(s) :
          /\ i + j <= Len(s)
          /\ IsBlank(SubSeq(s, 1, i))
          /\ IsBlank(SubSeq(s, Len(s) - j + 1, Len(s)))
          /\ t = SubSeq(s, i + 1, Len(s) - j)
ErrorMessage == [role |-> "assistant", content |-> ErrorText, stale |-> FALSE]
ModeOfReply(data) ==
    IF data.confirmed THEN "confirmed"
    ELSE IF data.awaiting_confirmation THEN "awaiting_confirmation"
    ELSE "composing"

\* C1: at most one gateway call is outstanding in every reachable state, and
\* a call of handleSendMessage or handleConfirmationResponse made while
\* isLoading is set appends no message and sends no request.
C1_SingleFlight ==
    /\ [](Len(requests) <= 1)
    /\ [][(IsCall(SendHandler) \/ IsCall(ConfirmHandler)) /\ isLoading
            => messages' = messages /\ requests' = requests]_vars

\* C1 witness: handleSendMessage was called with a non-blank draft while a
\* call was outstanding, and returned early.
C1_Witness ==
    /\ lastOp.handler = SendHandler /\ lastOp.step = "return"
    /\ isLoading /\ Len(requests) = 1
    /\ ~IsBlank(input)

\* C2 (as stated): a failed gateway call of handleConfirmationResponse appends
\* exactly one assistant message with the fixed error text and leaves the mode
\* unchanged.
C2_ConfirmFailureSurfaced ==
    [][IsCatch(ConfirmHandler)
        => messages' = Append(messages, ErrorMessage) /\ Mode' = Mode]_vars

\* C3 (as stated): after a successful reply that supplies a conversation_id,
\* to either handler, conversationId equals the supplied value; a reply that
\* supplies none leaves it unchanged; a request carries the conversationId
\* held when it is sent.
C3_ConversationIdFollowsReply ==
    [][/\ (IsThen(SendHandler) \/ IsThen(ConfirmHandler))
            => IF Truthy(lastOp'.data.conversation_id)
               THEN conversationId' = lastOp'.data.conversation_id
               ELSE conversationId' = conversationId
       /\ lastOp'.step = "fetch"
            => requests'[Len(requests')].conversation_id = conversationId]_vars

\* C4: when the gateway call of handleSendMessage fails (fetch rejects or the
\* status is not 2xx), exactly one assistant message with the fixed error text
\* is appended right after the user message of the call, mode and
\* conversationId are unchanged, no request is outstanding afterwards (no
\* retry) and isLoading is false.
C4_SendFailure ==
    [][IsCatch(SendHandler) /\ lastOp'.error \in {"HTTP error", "fetch rejected"}
        => /\ messages' = Append(messages, ErrorMessage)
           /\ messages[Len(messages)] =
                [role |-> "user", content |-> requests[1].message, stale |-> FALSE]
           /\ Mode' = Mode
           /\ conversationId' = conversationId
           /\ requests' = <<>>
           /\ isLoading' = FALSE]_vars

\* C4 witness: the first submit failed with a network error; the list is
\* greeting, user message, error message.
C4_Witness ==
    /\ lastOp.handler = SendHandler /\ lastOp.step = "catch"
    /\ lastOp.error = "fetch rejected"
    /\ Len(messages) = 3
    /\ messages[2].role = "user"
    /\ messages[3] = ErrorMessage
    /\ ~isLoading

\* C5: after a successful reply to either handler the mode is the one the
\* reply's flags give (confirmed before awaiting_confirmation, neither gives
\* composing), whatever the mode was; the two mode flags are never both set.
C5_ModeFromReply ==
    /\ [](~(isConfirmed /\ isAwaitingConfirmation))
    /\ [][IsThen(SendHandler) \/ IsThen(ConfirmHandler)
            => Mode' = ModeOfReply(lastOp'.data)]_vars

\* C5 witness: a reply with both flags set has arrived at handleSendMessage
\* and the mode is confirmed.
C5_Witness ==
    /\ lastOp.handler = SendHandler /\ lastOp.step = "then"
    /\ lastOp.data.confirmed /\ lastOp.data.awaiting_confirmation
    /\ Mode = "confirmed"

\* C6: in confirmed mode no gateway call is outstanding, and every step taken
\* in confirmed mode either is handleStartNewConversation or leaves the mode,
\* the message list and the outstanding calls as they are.
C6_ConfirmedIsTerminal ==
    /\ [](Mode = "confirmed" => requests = <<>>)
    /\ [][Mode = "confirmed"
            => \/ lastOp'.handler = ResetHandler
               \/ /\ Mode' = "confirmed"
                  /\ messages' = messages
                  /\ requests' = requests]_vars

\* C6 witness: the mode is confirmed after the reply to a confirmation.
C6_Witness ==
    /\ Mode = "confirmed"
    /\ lastOp.handler = ConfirmHandler /\ lastOp.step = "then"
    /\ Len(messages) > 1

\* C7: handleStartNewConversation leaves exactly the greeting, a null
\* conversationId and mode composing, and no message of a call started before
\* a reset is ever in the list.
C7_Reset ==
    /\ [](\A k \in 1..Len(messages) : ~messages[k].stale)
    /\ [][lastOp'.handler = ResetHandler
            => /\ messages' = <<INITIAL_MESSAGE>>
               /\ conversationId' = Null
               /\ Mode' = "composing"
               /\ requests' = <<>>]_vars

\* C7 witness: the conversation was reset.
C7_Witness ==
    /\ lastOp.handler = ResetHandler
    /\ messages = <<INITIAL_MESSAGE>>
    /\ conversationId = Null

\* C8: isLoading is set exactly while a gateway call is outstanding, and every
\* step that ends a call (reply handled, non-2xx status, network error,
\* exception while reading the reply) leaves isLoading false.
C8_LoadingCleared ==
    /\ [](isLoading <=> requests # <<>>)
    /\ [][lastOp'.step \in {"then", "catch"} => isLoading' = FALSE]_vars

\* C8 witness: reading the reply of a confirmation threw and the flag is clear.
C8_Witness ==
    /\ lastOp.handler = ConfirmHandler /\ lastOp.step = "catch"
    /\ lastOp.error = "json rejected"
    /\ ~isLoading

\* C9: a call of handleSendMessage with an empty or whitespace-only draft
\* changes nothing: messages, isLoading, the mode flags, conversationId and
\* the outstanding calls are as before.
C9_BlankSubmitIsNoOp ==
    [][IsCall(SendHandler) /\ IsBlank(input)
        => UNCHANGED <<messages, isLoading, isConfirmed, isAwaitingConfirmation,
                       conversationId, requests>>]_vars

\* C9 witness: handleSendMessage returned early on a draft of spaces with no
\* call outstanding.
C9_Witness ==
    /\ lastOp.handler = SendHandler /\ lastOp.step = "return"
    /\ input # <<>> /\ IsBlank(input)
    /\ ~isLoading

====
